---- MODULE Spec2Model ----
(***************************************************************************)
(* Model of the incremental indexing pipeline of RAG-Cardiology            *)
(* (src/cardiology_vector_db.py, class CardiologyVectorDB).                *)
(*                                                                         *)
(* One indexing process works on a few PDF files, one ledger file          *)
(* (index_metadata.json) and one Milvus collection.  add_documents and     *)
(* force_reindex are modelled statement group by statement group (pc), so  *)
(* that the order of embed / insert / flush / load / ledger write and the  *)
(* two halves of the ledger write (open-truncate, dump) are visible.       *)
(* The faults modelled are the ones the code itself catches: the file      *)
(* hash cannot be read, the ledger cannot be parsed or written, the        *)
(* embedding call fails, the store's insert / flush / load fails.          *)
(* A read of a PDF file (for its hash, for its text) may fail at any time;  *)
(* each read draws its outcome.                                            *)
(* Paths given to the methods are absolute, normalized paths, so           *)
(* os.path.abspath leaves them as they are; a path is identified with the  *)
(* ledger key it yields.  Store statistics (num_entities) do not fail.     *)
(*                                                                         *)
(* Three specifications:                                                   *)
(*   Spec      one process: construction, add_documents, force_reindex,    *)
(*             search_similar_documents, the status methods, the clear     *)
(*             command of index_manager.py, and files that change;         *)
(*   ChunkSpec chunk_text applied to every short text over a small         *)
(*             alphabet, turn by turn of its loop;                         *)
(*   ConcSpec  two processes that call add_documents on one ledger file    *)
(*             and one collection.                                         *)
(***************************************************************************)
EXTENDS Integers, Sequences, FiniteSets, TLC

\* ---------------------------------------------------------------- bounds
NumPaths == 2
MaxContent == 2
MaxClock == 2
MaxTextLen == 8
MaxChunks == 8

\* ----------------------------------------------------- program constants
MinChunkLen == 50
ChunkSize == 1000

Paths == 1..NumPaths
\* The successive contents (versions) of a file are numbered 1..MaxContent.

\* ------------------------------------------------------------ pure parts
\* hashlib.md5(...).hexdigest(): a digest is never the empty string, and
\* on the few contents of the model two contents never share a digest.
EmptyHash == 0

MD5(c) == c + 1

\* os.path.getsize
FileSize(c) == 24 + 1000 * c

\* os.path.basename: the directory is dropped, so paths 1 and 2 (the same
\* file name in two directories) share a source, path 3 has another one.
Basename(p) == (p + 1) \div 2

\* load_pdf on a readable file: the pages that hold text, in order.  Each
\* page is given by the trimmed lengths of the chunks chunk_text cuts it
\* into: odd pages end with a short tail chunk, even pages are one chunk.
PageChunkLens(pg) == IF pg % 2 = 1 THEN <<ChunkSize, MinChunkLen>> ELSE <<MinChunkLen + 1>>

\* Odd versions of a file have two pages of text, even versions one.
NumPages(c) == (c % 2) + 1

LoadPdfPages(c) == [pg \in 1..NumPages(c) |-> PageChunkLens(pg)]

\* The chunks of one page that pass `len(chunk.strip()) > 50`, with their
\* chunk_id (the position in the page's chunk list, from 0).
RECURSIVE PageDocs(_, _, _, _)
PageDocs(src, pg, lens, k) ==
    IF k > Len(lens) THEN <<>>
    ELSE (IF lens[k] > MinChunkLen
             THEN <<[source |-> src, page_num |-> pg, chunk_id |-> k - 1]>>
             ELSE <<>>)
         \o PageDocs(src, pg, lens, k + 1)

RECURSIVE DocsFrom(_, _, _)
DocsFrom(src, pages, pg) ==
    IF pg > Len(pages) THEN <<>>
    ELSE PageDocs(src, pg, pages[pg], 1) \o DocsFrom(src, pages, pg + 1)

\* process_documents(pdf_path) for a file that load_pdf could read.
ProcessDocuments(p, c) == DocsFrom(Basename(p), LoadPdfPages(c), 1)

\* Strings are sequences of characters.
IsSpace(c) == c = " "

\* re.sub(r'\s+', ' ', text): every run of white space becomes one space.
RECURSIVE CollapseWhitespace(_)
CollapseWhitespace(s) ==
    IF s = <<>> THEN <<>>
    ELSE IF IsSpace(Head(s))
         THEN IF Len(s) > 1 /\ IsSpace(s[2])
              THEN CollapseWhitespace(Tail(s))
              ELSE <<" ">> \o CollapseWhitespace(Tail(s))
         ELSE <<Head(s)>> \o CollapseWhitespace(Tail(s))

\* str.strip()
RECURSIVE LStrip(_)
LStrip(s) == IF s # <<>> /\ IsSpace(Head(s)) THEN LStrip(Tail(s)) ELSE s

RECURSIVE RStrip(_)
RStrip(s) == IF s # <<>> /\ IsSpace(s[Len(s)]) THEN RStrip(SubSeq(s, 1, Len(s) - 1)) ELSE s

Strip(s) == RStrip(LStrip(s))

\* ------------------------------------------------------------ the ledger
NoEntry == [present |-> FALSE, file_hash |-> EmptyHash, chunk_count |-> 0,
            processed_date |-> 0, file_size |-> 0]

EmptyPF == [p \in Paths |-> NoEntry]

NoStats == -1

\* No content of the file was indexed yet (a value of the model only).
NotIndexed == {}

\* The ledger file on disk.  kind: "absent", "truncated" (opened for
\* writing and the dump not completed: not parseable as JSON) or "json";
\* shape of a JSON document: "dict" (has processed_files), "dict_nopf"
\* (an object without processed_files), "list" (not an object).
LedgerFileOf(kind, shape, pf, stats) ==
    [kind |-> kind, shape |-> shape, pf |-> pf, stats |-> stats]

AbsentLedger == LedgerFileOf("absent", "none", EmptyPF, NoStats)
TruncatedLedger == LedgerFileOf("truncated", "none", EmptyPF, NoStats)
NoPfLedger == LedgerFileOf("json", "dict_nopf", EmptyPF, NoStats)
ListLedger == LedgerFileOf("json", "list", EmptyPF, NoStats)

\* The in-memory metadata: what json.load returned, or the default.
DefaultMetadata == [shape |-> "dict", pf |-> EmptyPF, stats |-> NoStats]


\* ----------------------------------------------------------------- state
VARIABLES
    files,       \* path -> [exists, content, mtime]
    ledgerFile,  \* index_metadata.json on disk
    coll,        \* the Milvus collection collection_name
    pc,          \* position of the process
    op,          \* the public method running: "none", "add", "reindex", "list", "status"
    cur,         \* pdf_path of the running method
    docs,        \* processed_docs of add_documents
    embeddings,  \* embeddings accumulated by add_documents
    metadata,    \* the metadata dict about to be saved
    saveRet,     \* where _save_index_metadata returns to
    result,      \* outcome of the running method
    clock,       \* wall clock: ticks at every call and every file change
    run,         \* observations of the running add_documents call
    prevCall,    \* the add_documents call that returned last, if nothing happened since
    indexed,     \* path -> {the content last indexed with success}, NotIndexed if none
    frObs,       \* observations of the running force_reindex call
    setupObs,    \* observations of the last _setup_collection
    savePrev,    \* the ledger file as it was when the running save began
    hits,        \* the running search_similar_documents call and what it returns
    clr,         \* the running clear command
    ck,          \* the frame of a chunk_text call
    procs        \* two indexing processes that share the ledger file and the store

vars == <<files, ledgerFile, coll, pc, op, cur, docs, embeddings, metadata, saveRet,
          result, clock, run, prevCall, indexed, frObs, setupObs, savePrev,
          hits, clr, ck, procs>>

\* The collection does not exist.
NoCollection == [exists |-> FALSE, loaded |-> FALSE, rows |-> <<>>, unflushed |-> <<>>,
                 fields |-> <<>>, metric |-> "none", gen |-> 0]

NoRun == [active |-> FALSE, embedCalls |-> 0, insertCalls |-> 0, embedFailed |-> FALSE,
          insertOk |-> FALSE, flushOk |-> FALSE, checked |-> "None",
          ledgerAtBegin |-> AbsentLedger, rowsAtBegin |-> 0, callTime |-> 0,
          repeat |-> FALSE, wasModified |-> FALSE, readFailed |-> FALSE]

NoCall == [path |-> 0, result |-> "None"]

NoFr == [active |-> FALSE, hadEntry |-> FALSE, replacedDate |-> 0, unchanged |-> FALSE,
         pfBefore |-> EmptyPF, collBefore |-> NoCollection]

NoSetup == [done |-> FALSE, existed |-> FALSE, entitiesBefore |-> 0, genBefore |-> 0]

NoHits == [called |-> FALSE, raised |-> FALSE, failed |-> FALSE, list |-> <<>>]

NoClear == [active |-> FALSE, answer |-> <<>>, outcome |-> "none",
            collBefore |-> NoCollection, ledgerBefore |-> AbsentLedger]

NoChunking == [active |-> FALSE, pc |-> "none", raw |-> <<>>, chunk_size |-> 0, overlap |-> 0,
               text |-> <<>>, start |-> 0, chunks |-> <<>>, cuts |-> <<>>]

NoProcs == [active |-> FALSE]

\* ------------------------------------------------------ the vector store
\* The schema of lines 129-138.
SchemaFields == <<"id", "text", "embedding", "source", "page_num", "chunk_id">>

\* utility.has_collection
HasCollection(c) == c.exists

\* Collection(name, schema) + create_index("embedding", COSINE / IVF_FLAT):
\* a new, empty collection; gen counts the collections ever created.
NewCollection(c) ==
    [exists |-> TRUE, loaded |-> FALSE, rows |-> <<>>, unflushed |-> <<>>,
     fields |-> SchemaFields, metric |-> "COSINE", gen |-> c.gen + 1]

\* collection.num_entities: the rows flushed so far.
NumEntities(c) == Len(c.rows)

\* A faulty variant of SetupFallthrough, without the second has_collection
\* test: the collection is created anew whenever this part is reached.
SetupFallthroughRecreate(c) == NewCollection(c)

\* Lines 128-157 of _setup_collection: reached when no collection exists,
\* when it is empty and when loading it failed.
SetupFallthrough(c) == IF ~HasCollection(c) THEN NewCollection(c) ELSE c

\* _setup_collection, loadOk: whether collection.load() succeeds.
SetupCollection(c, loadOk) ==
    IF HasCollection(c)
    THEN IF loadOk
         THEN LET c1 == [c EXCEPT !.loaded = TRUE]
              IN IF NumEntities(c1) > 0 THEN c1 ELSE SetupFallthrough(c1)
         ELSE SetupFallthrough(c)
    ELSE SetupFallthrough(c)

\* ------------------------------------------------------- ledger helpers
\* _load_index_metadata
LoadIndexMetadata(lf) ==
    IF lf.kind = "json"
    THEN [shape |-> lf.shape, pf |-> lf.pf, stats |-> lf.stats]
    ELSE DefaultMetadata

\* What json.dump(metadata) leaves in the file once it has completed.
JsonFile(md) == LedgerFileOf("json", md.shape, md.pf, md.stats)

\* _get_file_hash: "" when the file cannot be opened or read (readOk: the
\* read succeeds).
GetFileHash(f, readOk) == IF f.exists /\ readOk THEN MD5(f.content) ELSE EmptyHash

\* _is_file_processed: "True", "False", or "Raised" (KeyError / TypeError
\* of metadata["processed_files"]).
IsFileProcessed(lf, f, p, readOk) ==
    LET md == LoadIndexMetadata(lf) IN
    IF ~f.exists THEN "False"
    ELSE IF md.shape # "dict" THEN "Raised"
    ELSE IF md.pf[p].present
         THEN (IF md.pf[p].file_hash = GetFileHash(f, readOk) THEN "True" ELSE "False")
         ELSE "False"

\* ------------------------------------------------------------------ Init
InitFile(p) == [exists |-> TRUE, content |-> 1, mtime |-> 0]

\* Every variable of the indexing process but the ledger file, the store
\* and the files, before the first command.
ProcessAtStart ==
    /\ pc = "start"
    /\ op = "none"
    /\ cur = 0
    /\ docs = <<>>
    /\ embeddings = <<>>
    /\ metadata = DefaultMetadata
    /\ saveRet = "none"
    /\ result = "None"
    /\ clock = 0
    /\ run = NoRun
    /\ prevCall = NoCall
    /\ indexed = [p \in Paths |-> NotIndexed]
    /\ frObs = NoFr
    /\ setupObs = NoSetup
    /\ savePrev = AbsentLedger
    /\ hits = NoHits
    /\ clr = NoClear

Init ==
    /\ files = [p \in Paths |-> InitFile(p)]
    /\ ledgerFile \in {AbsentLedger, NoPfLedger, ListLedger}
    /\ coll = NoCollection
    /\ ProcessAtStart
    /\ ck = NoChunking
    /\ procs = NoProcs

\* ----------------------------------------------- construction and exit
\* CardiologyVectorDB.__init__: connect, then _setup_collection.
Construct ==
    /\ pc = "start"
    /\ \E loadOk \in BOOLEAN : coll' = SetupCollection(coll, loadOk)
    /\ setupObs' = [done |-> TRUE, existed |-> HasCollection(coll),
                    entitiesBefore |-> NumEntities(coll), genBefore |-> coll.gen]
    /\ pc' = "constructed"
    /\ UNCHANGED <<hits, clr, ck, procs, files, ledgerFile, op, cur, docs, embeddings, metadata, saveRet,
                   result, clock, run, prevCall, indexed, frObs, savePrev>>

\* The constructor returns; the instance is ready for calls.
Ready ==
    /\ pc = "constructed"
    /\ pc' = "idle"
    /\ setupObs' = NoSetup
    /\ UNCHANGED <<hits, clr, ck, procs, files, ledgerFile, coll, op, cur, docs, embeddings, metadata, saveRet,
                   result, clock, run, prevCall, indexed, frObs, savePrev>>

\* The process ends (every command of index_manager.py is one process);
\* the next command constructs a new instance.
Exit ==
    /\ pc = "idle"
    /\ pc' = "start"
    /\ UNCHANGED <<hits, clr, ck, procs, files, ledgerFile, coll, setupObs, op, cur, docs, embeddings, metadata, saveRet,
                   result, clock, run, prevCall, indexed, frObs, savePrev>>


\* ------------------------------------------------------------ add_documents
\* The exception handler of add_documents (lines 332-334): return False.
AddFails ==
    /\ result' = "False"
    /\ pc' = "ret"

\* generate_embedding: the embedding of the API, or the zero vector when
\* the call raised.
GenerateEmbedding(ok) == IF ok THEN "vec" ELSE "zero"

\* The entities of line 315, as the store keeps them: one row per embedded
\* chunk.  A row is known by its source, page_num and chunk_id; its text and
\* its vector are not kept (nothing in the model reads them back from the
\* store; the vectors of the running call are in embeddings).
Entities(ds, es) ==
    [k \in 1..Len(es) |-> [source |-> ds[k].source, page_num |-> ds[k].page_num,
                           chunk_id |-> ds[k].chunk_id]]

\* Lines 268-283: the already-processed check and its short-circuit.
EnterAdd(p, readOk) ==
    LET ip == IsFileProcessed(ledgerFile, files[p], p, readOk)
        run0 == [NoRun EXCEPT
                   !.active = TRUE,
                   !.checked = ip,
                   !.ledgerAtBegin = ledgerFile,
                   !.rowsAtBegin = Len(coll.rows) + Len(coll.unflushed),
                   !.callTime = clock',
                   !.repeat = prevCall = [path |-> p, result |-> "True"],
                   !.wasModified = indexed[p] # NotIndexed /\ indexed[p] # {files[p].content},
                   !.readFailed = ~(files[p].exists /\ readOk)]
    IN
    /\ cur' = p
    /\ docs' = <<>>
    /\ embeddings' = <<>>
    /\ CASE ip = "Raised" ->
              /\ AddFails
              /\ run' = run0
              /\ coll' = coll
         [] ip = "True" ->
              /\ run' = run0
              /\ IF coll.loaded
                 THEN /\ coll' = coll
                      /\ result' = "True"
                      /\ pc' = "ret"
                 ELSE \E loadOk \in BOOLEAN :
                        IF loadOk
                        THEN /\ coll' = [coll EXCEPT !.loaded = TRUE]
                             /\ result' = "True"
                             /\ pc' = "ret"
                        ELSE /\ coll' = coll
                             /\ AddFails
         [] OTHER ->
              /\ run' = run0
              /\ coll' = coll
              /\ result' = "None"
              /\ pc' = "add_process"

\* add_documents(pdf_path) called by the user.
AddBegin(p) ==
    /\ pc = "idle"
    /\ clock < MaxClock
    /\ clock' = clock + 1
    /\ op' = "add"
    /\ frObs' = NoFr
    /\ \E readOk \in BOOLEAN : EnterAdd(p, readOk)
    /\ UNCHANGED <<hits, clr, ck, procs, files, ledgerFile, metadata, saveRet, prevCall, indexed, setupObs, savePrev>>

\* Lines 286-290: process_documents; load_pdf returns [] when the file
\* cannot be read.
AddProcess ==
    /\ pc = "add_process"
    /\ \E readOk \in BOOLEAN :
       LET f == files[cur]
           ds == IF f.exists /\ readOk THEN ProcessDocuments(cur, f.content) ELSE <<>>
       IN /\ run' = [run EXCEPT !.readFailed = @ \/ ~(f.exists /\ readOk)]
          /\ IF ds = <<>>
             THEN /\ AddFails
                  /\ docs' = docs
             ELSE /\ docs' = ds
                  /\ pc' = "add_embed"
                  /\ result' = result
    /\ UNCHANGED <<hits, clr, ck, procs, files, ledgerFile, coll, op, cur, embeddings, metadata, saveRet, clock,
                   prevCall, indexed, frObs, setupObs, savePrev>>

\* A faulty variant of AddEmbed that inserts every chunk as soon as it is
\* embedded, before its siblings are.
AddEmbedInsertEach ==
    /\ pc = "add_embed"
    /\ \E ok \in BOOLEAN :
         /\ embeddings' = Append(embeddings, GenerateEmbedding(ok))
         /\ run' = [run EXCEPT !.embedCalls = @ + 1, !.embedFailed = @ \/ ~ok,
                               !.insertCalls = @ + 1, !.insertOk = TRUE]
         /\ coll' = [coll EXCEPT !.unflushed =
                        @ \o Entities(<<docs[Len(embeddings) + 1]>>, <<GenerateEmbedding(ok)>>)]
    /\ pc' = IF Len(embeddings) + 1 = Len(docs) THEN "add_flush" ELSE "add_embed"
    /\ UNCHANGED <<hits, clr, ck, procs, files, ledgerFile, op, cur, docs, metadata, saveRet,
                   result, clock, prevCall, indexed, frObs, setupObs, savePrev>>

\* Lines 302-312: one turn of the embedding loop.
AddEmbed ==
    /\ pc = "add_embed"
    /\ \E ok \in BOOLEAN :
         /\ embeddings' = Append(embeddings, GenerateEmbedding(ok))
         /\ run' = [run EXCEPT !.embedCalls = @ + 1, !.embedFailed = @ \/ ~ok]
    /\ pc' = IF Len(embeddings) + 1 = Len(docs) THEN "add_insert" ELSE "add_embed"
    /\ UNCHANGED <<hits, clr, ck, procs, files, ledgerFile, coll, op, cur, docs, metadata, saveRet, result, clock,
                   prevCall, indexed, frObs, setupObs, savePrev>>

\* A faulty variant of AddInsert that drops a failure of insert (as
\* generate_embedding drops a failure of the API) and goes on.
AddInsertSwallow ==
    /\ pc = "add_insert"
    /\ \E ok \in BOOLEAN :
         /\ coll' = IF ok THEN [coll EXCEPT !.unflushed = @ \o Entities(docs, embeddings)]
                          ELSE coll
         /\ run' = [run EXCEPT !.insertCalls = @ + 1, !.insertOk = ok]
    /\ pc' = "add_flush"
    /\ UNCHANGED <<hits, clr, ck, procs, files, ledgerFile, op, cur, docs, embeddings, metadata, saveRet, result,
                   clock, prevCall, indexed, frObs, setupObs, savePrev>>

\* Line 317: collection.insert(entities); an exception goes to the handler.
AddInsert ==
    /\ pc = "add_insert"
    /\ \E ok \in BOOLEAN :
         IF ok
         THEN /\ coll' = [coll EXCEPT !.unflushed = @ \o Entities(docs, embeddings)]
              /\ run' = [run EXCEPT !.insertCalls = @ + 1, !.insertOk = TRUE]
              /\ pc' = "add_flush"
              /\ result' = result
         ELSE /\ coll' = coll
              /\ run' = [run EXCEPT !.insertCalls = @ + 1]
              /\ AddFails
    /\ UNCHANGED <<hits, clr, ck, procs, files, ledgerFile, op, cur, docs, embeddings, metadata, saveRet,
                   clock, prevCall, indexed, frObs, setupObs, savePrev>>

\* Line 318: collection.flush(); the rows inserted become entities.
AddFlush ==
    /\ pc = "add_flush"
    /\ \E ok \in BOOLEAN :
         IF ok
         THEN /\ coll' = [coll EXCEPT !.rows = @ \o coll.unflushed, !.unflushed = <<>>]
              /\ run' = [run EXCEPT !.flushOk = TRUE]
              /\ pc' = "add_load"
              /\ result' = result
         ELSE /\ coll' = coll
              /\ run' = run
              /\ AddFails
    /\ UNCHANGED <<hits, clr, ck, procs, files, ledgerFile, op, cur, docs, embeddings, metadata, saveRet,
                   clock, prevCall, indexed, frObs, setupObs, savePrev>>

\* Line 324: collection.load().
AddLoad ==
    /\ pc = "add_load"
    /\ \E ok \in BOOLEAN :
         IF ok
         THEN /\ coll' = [coll EXCEPT !.loaded = TRUE]
              /\ pc' = "add_mark"
              /\ result' = result
         ELSE /\ coll' = coll
              /\ AddFails
    /\ UNCHANGED <<hits, clr, ck, procs, files, ledgerFile, op, cur, docs, embeddings, metadata, saveRet,
                   clock, run, prevCall, indexed, frObs, setupObs, savePrev>>

\* The entry _mark_file_as_processed builds (lines 343-348).
ProcessedEntry(f, chunk_count, readOk) ==
    [present |-> TRUE, file_hash |-> GetFileHash(f, readOk), chunk_count |-> chunk_count,
     processed_date |-> f.mtime, file_size |-> FileSize(f.content)]

\* Lines 328, 338-352: _mark_file_as_processed up to its save.  stat() of a
\* missing file and metadata["processed_files"] of a ledger without that
\* mapping raise into the handler of add_documents.
AddMark ==
    /\ pc = "add_mark"
    /\ \E readOk \in BOOLEAN :
       LET md == LoadIndexMetadata(ledgerFile)
           f == files[cur]
       IN /\ run' = [run EXCEPT !.readFailed = @ \/ ~(f.exists /\ readOk)]
          /\ IF ~f.exists \/ md.shape # "dict"
             THEN /\ AddFails
                  /\ UNCHANGED <<metadata, saveRet, savePrev>>
             ELSE /\ metadata' = [md EXCEPT !.pf[cur] = ProcessedEntry(f, Len(docs), readOk),
                                            !.stats = NumEntities(coll)]
                  /\ saveRet' = "mark_done"
                  /\ savePrev' = ledgerFile
                  /\ pc' = "save_open"
                  /\ result' = result
    /\ UNCHANGED <<hits, clr, ck, procs, files, ledgerFile, coll, op, cur, docs, embeddings, clock,
                   prevCall, indexed, frObs, setupObs>>


\* ---------------------------------------------------- _save_index_metadata
\* Where the caller of _save_index_metadata goes on: _mark_file_as_processed
\* returns and add_documents returns True (lines 355, 330); force_reindex
\* calls add_documents (line 443).  The save itself never raises.
AfterSave ==
    IF saveRet = "mark_done"
    THEN /\ result' = "True"
         /\ pc' = "ret"
    ELSE /\ result' = result
         /\ pc' = "fr_add"

\* Line 81: open(index_metadata_file, 'w') truncates the file, or raises
\* and leaves it as it was; the exception is printed and dropped.
SaveOpen ==
    /\ pc = "save_open"
    /\ \E ok \in BOOLEAN :
         IF ok
         THEN /\ ledgerFile' = TruncatedLedger
              /\ pc' = "save_dump"
              /\ result' = result
         ELSE /\ ledgerFile' = ledgerFile
              /\ AfterSave
    /\ UNCHANGED <<hits, clr, ck, procs, files, coll, op, cur, docs, embeddings, metadata, saveRet, clock, run,
                   prevCall, indexed, frObs, setupObs, savePrev>>

\* Line 82: json.dump writes the document, or raises part-way (the file
\* stays cut short); the exception is printed and dropped.
SaveDump ==
    /\ pc = "save_dump"
    /\ \E ok \in BOOLEAN :
         ledgerFile' = IF ok THEN JsonFile(metadata) ELSE ledgerFile
    /\ AfterSave
    /\ UNCHANGED <<hits, clr, ck, procs, files, coll, op, cur, docs, embeddings, metadata, saveRet, clock, run,
                   prevCall, indexed, frObs, setupObs, savePrev>>

\* ------------------------------------------------------------ force_reindex
\* Lines 430-440: remove the entry from the ledger.  metadata["processed_files"]
\* of a ledger without that mapping raises out of force_reindex.
FrBegin(p) ==
    /\ pc = "idle"
    /\ clock < MaxClock
    /\ clock' = clock + 1
    /\ op' = "reindex"
    /\ cur' = p
    /\ prevCall' = NoCall
    /\ LET md == LoadIndexMetadata(ledgerFile) IN
       IF md.shape # "dict"
       THEN /\ result' = "Raised"
            /\ pc' = "ret"
            /\ frObs' = [NoFr EXCEPT !.active = TRUE, !.collBefore = coll]
            /\ UNCHANGED <<metadata, saveRet, savePrev>>
       ELSE IF md.pf[p].present
       THEN /\ metadata' = [md EXCEPT !.pf[p] = NoEntry]
            /\ saveRet' = "fr_add"
            /\ savePrev' = ledgerFile
            /\ pc' = "save_open"
            /\ result' = "None"
            /\ frObs' = [active |-> TRUE, hadEntry |-> TRUE,
                         replacedDate |-> md.pf[p].processed_date,
                         unchanged |-> indexed[p] = {files[p].content},
                         pfBefore |-> md.pf, collBefore |-> coll]
       ELSE /\ pc' = "fr_add"
            /\ result' = "None"
            /\ frObs' = [NoFr EXCEPT !.active = TRUE, !.pfBefore = md.pf, !.collBefore = coll]
            /\ UNCHANGED <<metadata, saveRet, savePrev>>
    /\ UNCHANGED <<hits, clr, ck, procs, files, ledgerFile, coll, docs, embeddings, run, indexed, setupObs>>

\* Line 443: return self.add_documents(pdf_path).
FrAdd ==
    /\ pc = "fr_add"
    /\ UNCHANGED clock
    /\ \E readOk \in BOOLEAN : EnterAdd(cur, readOk)
    /\ UNCHANGED <<hits, clr, ck, procs, files, ledgerFile, op, metadata, saveRet, prevCall, indexed, frObs,
                   setupObs, savePrev>>

\* The method returns to its caller.
Return ==
    /\ pc = "ret"
    /\ pc' = "idle"
    /\ op' = "none"
    /\ prevCall' = IF op \in {"list", "status", "search"} THEN prevCall
                   ELSE IF result \in {"True", "False"}
                   THEN [path |-> cur, result |-> result] ELSE NoCall
    /\ indexed' = IF result = "True"
                  THEN [indexed EXCEPT ![cur] = {files[cur].content}] ELSE indexed
    /\ cur' = 0
    /\ docs' = <<>>
    /\ embeddings' = <<>>
    /\ metadata' = DefaultMetadata
    /\ saveRet' = "none"
    /\ savePrev' = AbsentLedger
    /\ result' = "None"
    /\ run' = NoRun
    /\ frObs' = NoFr
    /\ hits' = NoHits
    /\ UNCHANGED <<clr, ck, procs, files, ledgerFile, coll, clock, setupObs>>

\* ------------------------------------------------------- read-only methods
\* metadata.get("processed_files", {}) raises AttributeError when the JSON
\* document is not an object.
ReadProcessedFiles(lf) ==
    IF LoadIndexMetadata(lf).shape = "list" THEN "Raised" ELSE "Ok"

ListProcessedFiles ==
    /\ pc = "idle"
    /\ op' = "list"
    /\ result' = ReadProcessedFiles(ledgerFile)
    /\ pc' = "ret"
    /\ UNCHANGED <<hits, clr, ck, procs, files, ledgerFile, coll, cur, docs, embeddings, metadata, saveRet,
                   clock, run, prevCall, indexed, frObs, setupObs, savePrev>>

\* get_index_status reads the ledger the same way (lines 416, 422-423).
GetIndexStatus ==
    /\ pc = "idle"
    /\ op' = "status"
    /\ result' = ReadProcessedFiles(ledgerFile)
    /\ pc' = "ret"
    /\ UNCHANGED <<hits, clr, ck, procs, files, ledgerFile, coll, cur, docs, embeddings, metadata, saveRet,
                   clock, run, prevCall, indexed, frObs, setupObs, savePrev>>

\* ---------------------------------------------------------------- search
\* The values of top_k in use: the default of search_similar_documents and
\* the one search_test of index_manager.py passes.
TopKs == {3, 5}

\* generate_query_embedding: the embedding of the API, or the zero vector
\* when the call raised.
GenerateQueryEmbedding(ok) == IF ok THEN "qvec" ELSE "zero"

\* The rows a search can see: the flushed ones, and with them or without
\* them the rows inserted and not flushed yet (the store's choice).
SearchVisible(c) == {c.rows, c.rows \o c.unflushed}

\* results[0] of collection.search(..., limit=top_k): at most top_k of the
\* visible rows (the ranking by score is not modelled).
SearchResults(visible, top_k) ==
    SubSeq(visible, 1, IF Len(visible) < top_k THEN Len(visible) ELSE top_k)

\* Lines 378-387: one formatted result per hit.
FormatResults(rs) ==
    [k \in 1..Len(rs) |-> [source |-> rs[k].source, page_num |-> rs[k].page_num,
                           chunk_id |-> rs[k].chunk_id]]

\* A faulty variant of SearchSimilarDocuments without the handler of lines
\* 391-393: an exception of collection.search reaches the caller.
SearchSimilarDocumentsRaise ==
    /\ pc = "idle"
    /\ op' = "search"
    /\ pc' = "ret"
    /\ result' = "None"
    /\ \E top_k \in TopKs, embedOk \in BOOLEAN, searchOk \in BOOLEAN,
          visible \in SearchVisible(coll) :
         LET query_embedding == GenerateQueryEmbedding(embedOk)
             failed == ~coll.exists \/ ~coll.loaded \/ ~searchOk
         IN hits' = [called |-> TRUE, raised |-> failed, failed |-> failed,
                     list |-> IF failed THEN <<>>
                              ELSE FormatResults(SearchResults(visible, top_k))]
    /\ UNCHANGED <<clr, ck, procs, files, ledgerFile, coll, cur, docs, embeddings, metadata,
                   saveRet, clock, run, prevCall, indexed, frObs, setupObs, savePrev>>

\* search_similar_documents (lines 357-393).  The query embedding never
\* raises; collection.search raises when the collection is not loaded or
\* the store fails, and the handler returns [].
SearchSimilarDocuments ==
    /\ pc = "idle"
    /\ op' = "search"
    /\ pc' = "ret"
    /\ result' = "None"
    /\ \E top_k \in TopKs, embedOk \in BOOLEAN, searchOk \in BOOLEAN,
          visible \in SearchVisible(coll) :
         LET query_embedding == GenerateQueryEmbedding(embedOk)
             failed == ~coll.exists \/ ~coll.loaded \/ ~searchOk
         IN hits' = [called |-> TRUE, raised |-> FALSE, failed |-> failed,
                     list |-> IF failed THEN <<>>
                              ELSE FormatResults(SearchResults(visible, top_k))]
    /\ UNCHANGED <<clr, ck, procs, files, ledgerFile, coll, cur, docs, embeddings, metadata,
                   saveRet, clock, run, prevCall, indexed, frObs, setupObs, savePrev>>

\* ------------------------------------------------------ the clear command
\* What the user may type at the prompt of clear_index.
Answers == {<<"y", "e", "s">>, <<" ", "Y", "E", "S", " ">>, <<"y">>, <<"n", "o">>, <<>>}

\* str.lower(), on the characters of Answers.
Lower(c) == CASE c = "Y" -> "y" [] c = "E" -> "e" [] c = "S" -> "s" [] OTHER -> c

\* input(...).strip().lower()
Confirm(answer) == [i \in 1..Len(Strip(answer)) |-> Lower(Strip(answer)[i])]

Yes == <<"y", "e", "s">>

\* utility.drop_collection
DropCollection(c) == [NoCollection EXCEPT !.gen = c.gen]

\* clear_index of index_manager.py, lines 89-94: ask, and stop unless the
\* answer is 'yes'.
ClearIndex ==
    /\ pc = "idle"
    /\ clock < MaxClock
    /\ clock' = clock + 1
    /\ op' = "clear"
    /\ prevCall' = NoCall
    /\ \E answer \in Answers :
         LET confirm == Confirm(answer) IN
         /\ clr' = [active |-> TRUE, answer |-> answer,
                    outcome |-> IF confirm # Yes THEN "cancelled" ELSE "none",
                    collBefore |-> coll, ledgerBefore |-> ledgerFile]
         /\ pc' = IF confirm # Yes THEN "clear_ret" ELSE "cleanup_drop"
    /\ UNCHANGED <<hits, ck, procs, files, ledgerFile, coll, cur, docs, embeddings, metadata,
                   saveRet, result, run, indexed, frObs, setupObs, savePrev>>

\* cleanup, lines 452-455: drop the collection if there is one.  An
\* exception goes to the handler of clear_index (lines 99-100).
CleanupDrop ==
    /\ pc = "cleanup_drop"
    /\ IF HasCollection(coll)
       THEN \E ok \in BOOLEAN :
              IF ok
              THEN /\ coll' = DropCollection(coll)
                   /\ pc' = "cleanup_remove"
                   /\ clr' = clr
              ELSE /\ coll' = coll
                   /\ pc' = "clear_ret"
                   /\ clr' = [clr EXCEPT !.outcome = "error"]
       ELSE /\ coll' = coll
            /\ pc' = "cleanup_remove"
            /\ clr' = clr
    /\ UNCHANGED <<hits, ck, procs, files, ledgerFile, op, cur, docs, embeddings, metadata,
                   saveRet, result, clock, run, prevCall, indexed, frObs, setupObs, savePrev>>

\* cleanup, lines 456-461: remove the ledger file if there is one, then
\* disconnect.
CleanupRemove ==
    /\ pc = "cleanup_remove"
    /\ IF ledgerFile.kind # "absent"
       THEN \E ok \in BOOLEAN :
              IF ok
              THEN /\ ledgerFile' = AbsentLedger
                   /\ clr' = [clr EXCEPT !.outcome = "cleared"]
              ELSE /\ ledgerFile' = ledgerFile
                   /\ clr' = [clr EXCEPT !.outcome = "error"]
       ELSE /\ ledgerFile' = ledgerFile
            /\ clr' = [clr EXCEPT !.outcome = "cleared"]
    /\ pc' = "clear_ret"
    /\ UNCHANGED <<hits, ck, procs, files, coll, op, cur, docs, embeddings, metadata,
                   saveRet, result, clock, run, prevCall, indexed, frObs, setupObs, savePrev>>

\* clear_index returns and, with it, main: the process ends.
ClearExit ==
    /\ pc = "clear_ret"
    /\ pc' = "start"
    /\ op' = "none"
    /\ clr' = NoClear
    /\ indexed' = IF clr.outcome = "cleared" THEN [p \in Paths |-> NotIndexed] ELSE indexed
    /\ UNCHANGED <<hits, ck, procs, files, ledgerFile, coll, cur, docs, embeddings, metadata,
                   saveRet, result, clock, run, prevCall, frObs, setupObs, savePrev>>

\* ---------------------------------------------------------- the environment
\* The file is rewritten with its next content between two calls.
ModifyFile(p) ==
    /\ pc = "idle"
    /\ clock < MaxClock
    /\ files[p].exists
    /\ files[p].content < MaxContent
    /\ clock' = clock + 1
    /\ files' = [files EXCEPT ![p].content = @ + 1, ![p].mtime = clock + 1]
    /\ prevCall' = NoCall
    /\ UNCHANGED <<hits, clr, ck, procs, ledgerFile, coll, pc, op, cur, docs, embeddings, metadata, saveRet,
                   result, run, indexed, frObs, setupObs, savePrev>>

\* The file is deleted between two calls.
DeleteFile(p) ==
    /\ pc = "idle"
    /\ clock < MaxClock
    /\ files[p].exists
    /\ clock' = clock + 1
    /\ files' = [files EXCEPT ![p].exists = FALSE]
    /\ prevCall' = NoCall
    /\ UNCHANGED <<hits, clr, ck, procs, ledgerFile, coll, pc, op, cur, docs, embeddings, metadata, saveRet,
                   result, run, indexed, frObs, setupObs, savePrev>>

\* ------------------------------------------------------ the specification
Next ==
    \/ Construct
    \/ Ready
    \/ Exit
    \/ \E p \in Paths : AddBegin(p)
    \/ AddProcess
    \/ AddEmbed
    \/ AddInsert
    \/ AddFlush
    \/ AddLoad
    \/ AddMark
    \/ SaveOpen
    \/ SaveDump
    \/ \E p \in Paths : FrBegin(p)
    \/ FrAdd
    \/ Return
    \/ ListProcessedFiles
    \/ GetIndexStatus
    \/ SearchSimilarDocuments
    \/ ClearIndex
    \/ CleanupDrop
    \/ CleanupRemove
    \/ ClearExit
    \/ \E p \in Paths : ModifyFile(p)
    \/ \E p \in Paths : DeleteFile(p)

Spec == Init /\ [][Next]_vars


\* ============================================================== chunk_text
\* chunk_text is a pure function of (text, chunk_size, overlap).  A text is
\* a sequence of characters; the characters that matter to chunk_text are
\* the full stop, the white space and any other character ("a").  Indices
\* are those of Python, from 0.
Alphabet == {"a", ".", " "}

Texts == UNION {[1..n -> Alphabet] : n \in 0..MaxTextLen}

\* The parameter pairs the function is applied to, overlap < chunk_size
\* (with chunk_size 7 the last full stop and the last space beyond the
\* middle of a window can lie apart).
ChunkSizes == {3, 4, 7}

Overlaps == {0, 1, 2}

\* s[a:b] for 0 <= a (b is cut to len(s)).
Slice(s, a, b) == SubSeq(s, a + 1, IF b < Len(s) THEN b ELSE Len(s))

\* s.rfind(ch, a, b) for 0 <= a: the highest index in [a, b) that holds ch,
\* -1 when there is none.
RFind(s, ch, a, b) ==
    LET hi == IF b < Len(s) THEN b ELSE Len(s)
        found == {i \in a..(hi - 1) : s[i + 1] = ch}
    IN IF found = {} THEN -1 ELSE CHOOSE i \in found : \A j \in found : j <= i

\* A faulty variant of ChunkEnd that accepts a boundary at the middle of
\* the window (>= for >).
ChunkEndAtHalf(text, start, chunk_size) ==
    LET end == start + chunk_size IN
    IF end < Len(text)
    THEN LET sentence_end == RFind(text, ".", start, end) IN
         IF sentence_end >= start + chunk_size \div 2
         THEN sentence_end + 1
         ELSE LET word_end == RFind(text, " ", start, end) IN
              IF word_end >= start + chunk_size \div 2 THEN word_end ELSE end
    ELSE end

\* Lines 227-239: the end of the window that starts at start.
ChunkEnd(text, start, chunk_size) ==
    LET end == start + chunk_size IN
    IF end < Len(text)
    THEN LET sentence_end == RFind(text, ".", start, end) IN
         IF sentence_end > start + chunk_size \div 2
         THEN sentence_end + 1
         ELSE LET word_end == RFind(text, " ", start, end) IN
              IF word_end > start + chunk_size \div 2 THEN word_end ELSE end
    ELSE end

\* The frame of chunk_text(raw, chunk_size, overlap) at its call.
ChunkFrame(raw, chunk_size, overlap) ==
    [active |-> TRUE, pc |-> "call", raw |-> raw, chunk_size |-> chunk_size,
     overlap |-> overlap, text |-> <<>>, start |-> 0, chunks |-> <<>>, cuts |-> <<>>]

pipelineVars == <<files, ledgerFile, coll, pc, op, cur, docs, embeddings, metadata, saveRet,
                  result, clock, run, prevCall, indexed, frObs, setupObs, savePrev,
                  hits, clr, procs>>

ChunkInit ==
    /\ files = [p \in Paths |-> InitFile(p)]
    /\ ledgerFile = AbsentLedger
    /\ coll = NoCollection
    /\ ProcessAtStart
    /\ procs = NoProcs
    /\ \E raw \in Texts, chunk_size \in ChunkSizes, overlap \in Overlaps :
         /\ overlap < chunk_size
         /\ ck = ChunkFrame(raw, chunk_size, overlap)

\* A faulty variant of ChunkTextCall without the early return of lines
\* 219-220: every text goes through the loop.
ChunkTextCallNoShort ==
    /\ ck.pc = "call"
    /\ LET text == Strip(CollapseWhitespace(ck.raw)) IN
       ck' = [ck EXCEPT !.text = text, !.start = 0, !.chunks = <<>>, !.pc = "loop"]
    /\ UNCHANGED pipelineVars

\* Lines 217-223: normalize the text; a short text is returned whole.
ChunkTextCall ==
    /\ ck.pc = "call"
    /\ LET text == Strip(CollapseWhitespace(ck.raw)) IN
       ck' = IF Len(text) <= ck.chunk_size
             THEN [ck EXCEPT !.text = text, !.chunks = <<text>>, !.pc = "done"]
             ELSE [ck EXCEPT !.text = text, !.start = 0, !.chunks = <<>>, !.pc = "loop"]
    /\ UNCHANGED pipelineVars

\* Lines 225-242: one turn of the loop; cuts keeps the start and the end
\* of every window.  (The model follows at most MaxChunks turns of one
\* call.)
ChunkTextLoop ==
    /\ ck.pc = "loop"
    /\ ck.start < Len(ck.text)
    /\ Len(ck.chunks) < MaxChunks
    /\ LET end == ChunkEnd(ck.text, ck.start, ck.chunk_size) IN
       ck' = [ck EXCEPT !.chunks = Append(@, Strip(Slice(ck.text, ck.start, end))),
                        !.cuts = Append(@, [start |-> ck.start, end |-> end]),
                        !.start = IF end < Len(ck.text) THEN end - ck.overlap ELSE end]
    /\ UNCHANGED pipelineVars

\* Line 244: the loop has ended, return chunks.
ChunkTextReturn ==
    /\ ck.pc = "loop"
    /\ ck.start >= Len(ck.text)
    /\ ck' = [ck EXCEPT !.pc = "done"]
    /\ UNCHANGED pipelineVars

ChunkNext ==
    \/ ChunkTextCall
    \/ ChunkTextLoop
    \/ ChunkTextReturn

ChunkSpec == ChunkInit /\ [][ChunkNext]_vars


\* ================================================= two indexing processes
\* Two processes (two runs of index_manager.py add, or two instances in
\* two programs) use the same collection and the same index_metadata.json,
\* and each calls add_documents once.  Their steps interleave at every
\* access to the ledger file and to the store.  Every call of the store,
\* of the embedding API and of the file system succeeds here: what this
\* specification shows comes from the interleaving alone.
Procs == {1, 2}

ProcAtStart == [pc |-> "idle", path |-> 0, checked |-> "None", docs |-> <<>>,
                embeddings |-> <<>>, metadata |-> DefaultMetadata, result |-> "None",
                embedCalls |-> 0, insertCalls |-> 0]

\* The ledger and the collection after one successful add_documents(p).
LedgerWith(p) ==
    JsonFile([DefaultMetadata EXCEPT
                !.pf[p] = ProcessedEntry(InitFile(p), Len(ProcessDocuments(p, 1)), TRUE),
                !.stats = Len(ProcessDocuments(p, 1))])

CollectionWith(ds) ==
    [NewCollection(NoCollection) EXCEPT
       !.loaded = TRUE,
       !.rows = Entities(ds, [k \in 1..Len(ds) |-> GenerateEmbedding(TRUE)])]

concFrame == <<files, pc, op, cur, docs, embeddings, metadata, saveRet, result, clock, run,
               prevCall, indexed, frObs, setupObs, savePrev, hits, clr, ck>>

ConcInit ==
    /\ files = [p \in Paths |-> InitFile(p)]
    /\ \/ /\ ledgerFile = AbsentLedger
          /\ coll = CollectionWith(<<>>)
       \/ /\ ledgerFile = LedgerWith(1)
          /\ coll = CollectionWith(ProcessDocuments(1, 1))
    /\ ProcessAtStart
    /\ ck = NoChunking
    /\ procs = [i \in Procs |-> ProcAtStart]

\* Lines 268-283 in process i: _is_file_processed reads the ledger file and
\* the file; the short-circuit returns True.
PEnterAdd(i, p) ==
    /\ procs[i].pc = "idle"
    /\ LET ip == IsFileProcessed(ledgerFile, files[p], p, TRUE) IN
       procs' = [procs EXCEPT ![i] =
                   [@ EXCEPT !.path = p, !.checked = ip,
                             !.result = IF ip = "True" THEN "True"
                                        ELSE IF ip = "Raised" THEN "False" ELSE "None",
                             !.pc = IF ip = "False" THEN "add_process" ELSE "done"]]
    /\ UNCHANGED <<ledgerFile, coll, concFrame>>

\* Lines 286-312 in process i: process_documents and the embedding loop.
PProcessAndEmbed(i) ==
    /\ procs[i].pc = "add_process"
    /\ LET ds == ProcessDocuments(procs[i].path, files[procs[i].path].content) IN
       procs' = [procs EXCEPT ![i] =
                   [@ EXCEPT !.docs = ds,
                             !.embeddings = [k \in 1..Len(ds) |-> GenerateEmbedding(TRUE)],
                             !.embedCalls = @ + Len(ds),
                             !.pc = "add_insert"]]
    /\ UNCHANGED <<ledgerFile, coll, concFrame>>

\* Line 317 in process i.
PInsert(i) ==
    /\ procs[i].pc = "add_insert"
    /\ coll' = [coll EXCEPT !.unflushed = @ \o Entities(procs[i].docs, procs[i].embeddings)]
    /\ procs' = [procs EXCEPT ![i] = [@ EXCEPT !.insertCalls = @ + 1, !.pc = "add_flush"]]
    /\ UNCHANGED <<ledgerFile, concFrame>>

\* Lines 318-324 in process i: flush, then load.
PFlushLoad(i) ==
    /\ procs[i].pc = "add_flush"
    /\ coll' = [coll EXCEPT !.rows = @ \o coll.unflushed, !.unflushed = <<>>, !.loaded = TRUE]
    /\ procs' = [procs EXCEPT ![i] = [@ EXCEPT !.pc = "add_mark"]]
    /\ UNCHANGED <<ledgerFile, concFrame>>

\* Lines 338-352 in process i: _mark_file_as_processed reads the ledger
\* file and puts its entry into what it read.
PMark(i) ==
    /\ procs[i].pc = "add_mark"
    /\ LET md == LoadIndexMetadata(ledgerFile)
           p == procs[i].path
       IN procs' = [procs EXCEPT ![i] =
                      [@ EXCEPT !.metadata =
                                   [md EXCEPT !.pf[p] = ProcessedEntry(files[p],
                                                                       Len(procs[i].docs), TRUE),
                                              !.stats = NumEntities(coll)],
                                !.pc = "save_open"]]
    /\ UNCHANGED <<ledgerFile, coll, concFrame>>

\* Line 81 in process i: open(index_metadata_file, 'w') truncates the file.
PSaveOpen(i) ==
    /\ procs[i].pc = "save_open"
    /\ ledgerFile' = TruncatedLedger
    /\ procs' = [procs EXCEPT ![i] = [@ EXCEPT !.pc = "save_dump"]]
    /\ UNCHANGED <<coll, concFrame>>

\* Line 82 in process i: json.dump writes what the process holds; then
\* add_documents returns True (line 330).
PSaveDump(i) ==
    /\ procs[i].pc = "save_dump"
    /\ ledgerFile' = JsonFile(procs[i].metadata)
    /\ procs' = [procs EXCEPT ![i] = [@ EXCEPT !.result = "True", !.pc = "done"]]
    /\ UNCHANGED <<coll, concFrame>>

ConcNext ==
    \E i \in Procs :
        \/ \E p \in Paths : PEnterAdd(i, p)
        \/ PProcessAndEmbed(i)
        \/ PInsert(i)
        \/ PFlushLoad(i)
        \/ PMark(i)
        \/ PSaveOpen(i)
        \/ PSaveDump(i)

ConcSpec == ConcInit /\ [][ConcNext]_vars


\* ================================================================ claims
\* Rows the store holds, flushed or not.
StoredRows == Len(coll.rows) + Len(coll.unflushed)

\* The running add_documents call has reached its return.
AddReturns == pc = "ret" /\ run.active

\* The ledger file cannot be used as a ledger: absent, not JSON, or JSON
\* without a processed_files mapping.
Unusable(lf) == lf.kind # "json" \/ lf.shape # "dict"

\* C1: two consecutive add_documents(path) calls with the file unchanged
\* between them: once the first returned True, the second (all of whose
\* reads of the file succeed) makes no embed call and no insert, leaves
\* the ledger file as it is and returns True.
C1_IdempotentAdd ==
    (AddReturns /\ run.repeat /\ ~run.readFailed)
        => /\ run.embedCalls = 0
           /\ run.insertCalls = 0
           /\ ledgerFile = run.ledgerAtBegin
           /\ result = "True"

\* C2: at every point of a run of add_documents, the ledger file differs
\* from what the run found only if the insert and the flush of that run
\* have succeeded before; a run whose insert or flush failed returns False
\* with the ledger file as it found it.
C2_LedgerAfterStore ==
    /\ (run.active /\ ledgerFile # run.ledgerAtBegin) => (run.insertOk /\ run.flushOk)
    /\ (AddReturns /\ run.insertCalls > 0 /\ ~(run.insertOk /\ run.flushOk))
         => (ledgerFile = run.ledgerAtBegin /\ result = "False")

\* C2 witness: a run that inserted, flushed and then wrote the ledger.
C2_Witness ==
    /\ AddReturns
    /\ result = "True"
    /\ run.insertOk /\ run.flushOk
    /\ ledgerFile # run.ledgerAtBegin
    /\ ledgerFile.kind = "json" /\ ledgerFile.pf[cur].present

\* C3: a run of add_documents in which the embedding of some chunk failed
\* returns False, has inserted no row, and has left the ledger file as it
\* found it.
C3_AbortOnEmbeddingFailure ==
    (AddReturns /\ run.embedFailed)
        => /\ result = "False"
           /\ StoredRows = run.rowsAtBegin
           /\ ledgerFile = run.ledgerAtBegin

\* The hash of the file's bytes can be computed and the ledger holds an
\* entry for the path with that hash.
EntryMatchesFile(p, readOk) ==
    /\ ~Unusable(ledgerFile)
    /\ ledgerFile.pf[p].present
    /\ files[p].exists /\ readOk
    /\ ledgerFile.pf[p].file_hash = MD5(files[p].content)

\* C4: _is_file_processed(path) is true if and only if the ledger has an
\* entry for the path whose stored hash is the hash computed from the
\* file's bytes, whether or not the file can be read.
C4_IsProcessedIff ==
    \A p \in Paths, readOk \in BOOLEAN :
        (IsFileProcessed(ledgerFile, files[p], p, readOk) = "True")
            <=> EntryMatchesFile(p, readOk)

\* C5: once a file was indexed with success and its content was modified
\* since, _is_file_processed is not true of it, and the next add_documents
\* does not take the short-circuit and, when it returns True, has stored
\* the hash of the new content in the ledger entry.
C5_ChangeDetection ==
    /\ \A p \in Paths, readOk \in BOOLEAN :
         (files[p].exists /\ indexed[p] # NotIndexed /\ indexed[p] # {files[p].content})
            => IsFileProcessed(ledgerFile, files[p], p, readOk) # "True"
    /\ (AddReturns /\ run.wasModified)
         => /\ run.checked # "True"
            /\ result = "True"
                 => /\ ~Unusable(ledgerFile)
                    /\ ledgerFile.pf[cur].present
                    /\ ledgerFile.pf[cur].file_hash = MD5(files[cur].content)

\* C6: the add_documents run of a force_reindex never takes the
\* already-processed short-circuit.
C6_ReindexNeverShortCircuits ==
    (AddReturns /\ op = "reindex") => run.checked # "True"

\* C7: when force_reindex of a file whose content is unchanged has removed
\* the old ledger entry and stored the new one, the processed_date of the entry is the time of
\* this run and is later than the processed_date of the entry it replaced.
C7_FreshProcessedDate ==
    (/\ AddReturns /\ op = "reindex" /\ result = "True"
     /\ frObs.hadEntry /\ frObs.unchanged
     /\ ~Unusable(run.ledgerAtBegin) /\ ~run.ledgerAtBegin.pf[cur].present
     /\ saveRet = "mark_done" /\ ledgerFile = JsonFile(metadata))
        => /\ ledgerFile.pf[cur].processed_date = run.callTime
           /\ ledgerFile.pf[cur].processed_date > frObs.replacedDate

\* C8: _setup_collection keeps an existing collection (same collection,
\* same entities), whether it is populated, empty or failed to load, and
\* creates one with the fixed schema and a COSINE index when none exists.
C8_SetupKeepsCollection ==
    pc = "constructed"
        => /\ coll.exists
           /\ coll.fields = SchemaFields
           /\ coll.metric = "COSINE"
           /\ IF setupObs.existed
              THEN /\ NumEntities(coll) = setupObs.entitiesBefore
                   /\ coll.gen = setupObs.genBefore
              ELSE /\ NumEntities(coll) = 0
                   /\ coll.gen = setupObs.genBefore + 1

\* C8 witness: a populated collection was found and kept.
C8_Witness ==
    /\ pc = "constructed"
    /\ setupObs.existed
    /\ setupObs.entitiesBefore > 0
    /\ NumEntities(coll) = setupObs.entitiesBefore

\* C9: with a ledger file that is absent, not JSON, or JSON without a
\* processed_files mapping, the _is_file_processed of add_documents returns
\* False (add_documents goes on to index the file), and force_reindex,
\* list_processed_files and get_index_status do not raise.
C9_UnusableLedgerIsEmpty ==
    /\ (AddReturns /\ Unusable(run.ledgerAtBegin)) => run.checked = "False"
    /\ (pc = "ret" /\ op \in {"reindex", "list", "status"}) => result # "Raised"

\* C10: a reader of the ledger file never finds it cut short: at every
\* point of a save it holds the complete previous ledger or the complete
\* new one.
C10_AtomicLedgerWrite ==
    /\ ledgerFile.kind # "truncated"
    /\ pc \in {"save_open", "save_dump"} => ledgerFile \in {savePrev, JsonFile(metadata)}

\* C11: add_documents and force_reindex never raise to their caller, and a
\* run of add_documents in which an embedding call, the insert or the flush
\* failed returns False.
C11_FailureIsolation ==
    /\ (pc = "ret" /\ op \in {"add", "reindex"}) => result \in {"True", "False"}
    /\ (AddReturns /\ (run.embedFailed
                          \/ (run.insertCalls > 0 /\ ~(run.insertOk /\ run.flushOk))))
         => result = "False"

\* C12: search_similar_documents returns a list and never raises, whatever
\* the state of the collection and the outcome of the query embedding and
\* of the store search; the list is empty when the search failed and when
\* the collection holds no row.
C12_SearchNeverRaises ==
    (pc = "ret" /\ op = "search")
        => /\ hits.called /\ ~hits.raised
           /\ hits.failed => hits.list = <<>>
           /\ StoredRows = 0 => hits.list = <<>>
           /\ Len(hits.list) <= StoredRows

\* C12 witness: a search on a populated collection failed and an empty
\* list came back.
C12_Witness ==
    /\ pc = "ret" /\ op = "search"
    /\ hits.failed /\ ~hits.raised
    /\ NumEntities(coll) > 0
    /\ hits.list = <<>>

\* chunk_text has returned the chunks of a text longer than chunk_size.
LongTextChunked == ck.pc = "done" /\ Len(ck.text) > ck.chunk_size

\* C13: when chunk_text has cut a text longer than chunk_size, every chunk
\* (as returned, trimmed) is at most chunk_size long and every chunk but
\* the last is at least chunk_size/2 long, for odd and even chunk_size.
C13_ChunkLengthBounds ==
    LongTextChunked
        => \A k \in 1..Len(ck.chunks) :
             /\ Len(ck.chunks[k]) <= ck.chunk_size
             /\ k < Len(ck.chunks) => 2 * Len(ck.chunks[k]) >= ck.chunk_size

\* s without its first n characters.
DropLeading(s, n) == SubSeq(s, n + 1, Len(s))

\* The chunks put together again, each but the first without its leading
\* overlap characters.
RECURSIVE Reassemble(_, _, _)
Reassemble(chunks, overlap, k) ==
    IF k > Len(chunks) THEN <<>>
    ELSE (IF k = 1 THEN chunks[k] ELSE DropLeading(chunks[k], overlap))
         \o Reassemble(chunks, overlap, k + 1)

\* C14: when chunk_text has cut a text longer than chunk_size, the chunks
\* put together again without the leading overlap of each chunk but the
\* first are exactly the normalized, trimmed text.
C14_ChunkRoundTrip ==
    LongTextChunked => Reassemble(ck.chunks, ck.overlap, 1) = ck.text

\* t is raw with every run of white space made one space and no white
\* space at either end.
IsNormalizedOf(t, raw) ==
    /\ SelectSeq(t, LAMBDA c : ~IsSpace(c)) = SelectSeq(raw, LAMBDA c : ~IsSpace(c))
    /\ t # <<>> => ~IsSpace(t[1]) /\ ~IsSpace(t[Len(t)])
    /\ \A i \in 1..(Len(t) - 1) : ~(IsSpace(t[i]) /\ IsSpace(t[i + 1]))
    /\ \A i \in 2..(Len(t) - 1) : IsSpace(t[i]) =>
         \E j \in 2..(Len(raw) - 1) :
            /\ IsSpace(raw[j])
            /\ SelectSeq(SubSeq(raw, 1, j), LAMBDA c : ~IsSpace(c))
                 = SelectSeq(SubSeq(t, 1, i), LAMBDA c : ~IsSpace(c))

\* C15: for a text whose normalized, trimmed length is at most chunk_size
\* (the empty and the all-white-space text included) chunk_text returns
\* exactly one chunk, the whole normalized text.
C15_ShortTextOneChunk ==
    (ck.pc = "done" /\ Len(Strip(CollapseWhitespace(ck.raw))) <= ck.chunk_size)
        => /\ Len(ck.chunks) = 1
           /\ IsNormalizedOf(ck.chunks[1], ck.raw)
           /\ Len(ck.chunks[1]) <= ck.chunk_size

\* C15 witness: an all-white-space text came back as one empty chunk.
C15_Witness ==
    /\ ck.pc = "done"
    /\ ck.raw # <<>>
    /\ \A i \in 1..Len(ck.raw) : IsSpace(ck.raw[i])
    /\ ck.chunks = << <<>> >>

\* The chunks of a readable file with content c that are longer than 50
\* characters after trimming, counted page by page.
RetainedChunks(c) ==
    Cardinality({x \in UNION {{<<pg, k>> : k \in 1..Len(LoadPdfPages(c)[pg])} :
                               pg \in 1..NumPages(c)} :
                    LoadPdfPages(c)[x[1]][x[2]] > MinChunkLen})

\* C16: when an add_documents that indexed the file returns True, the
\* ledger entry of the file holds as chunk_count the number of rows the run
\* inserted, which is the number of chunks of the file that are longer than
\* 50 characters after trimming.
C16_ChunkCountBookkeeping ==
    (AddReturns /\ result = "True" /\ run.checked # "True")
        => /\ ~Unusable(ledgerFile)
           /\ ledgerFile.pf[cur].present
           /\ ledgerFile.pf[cur].chunk_count = StoredRows - run.rowsAtBegin
           /\ StoredRows - run.rowsAtBegin = RetainedChunks(files[cur].content)

\* C17: unless the answer to clear_index is 'yes' the collection and the
\* ledger file stay as they are; when clear_index returns after the answer
\* 'yes' the collection is dropped, the ledger file is removed and no file
\* is reported as processed (a clear that failed before it changed
\* anything is not held against the claim).
C17_ClearNeedsConfirmation ==
    /\ (clr.active /\ Confirm(clr.answer) # Yes)
         => (coll = clr.collBefore /\ ledgerFile = clr.ledgerBefore)
    /\ (pc = "clear_ret" /\ Confirm(clr.answer) = Yes)
         => \/ /\ ~HasCollection(coll)
               /\ ledgerFile.kind = "absent"
               /\ \A p \in Paths : ~LoadIndexMetadata(ledgerFile).pf[p].present
            \/ /\ clr.outcome = "error"
               /\ coll = clr.collBefore
               /\ ledgerFile = clr.ledgerBefore

\* C18: in a run of add_documents the store insert happens at most once,
\* after the embedding call of every retained chunk of the document has
\* returned, as one batch of all of them (no row of the run is in the store
\* before); a run that indexed and returns True has flushed after the insert.
C18_EmbedAllThenInsert ==
    run.active
        => /\ run.insertCalls <= 1
           /\ run.insertCalls = 0 => StoredRows = run.rowsAtBegin
           /\ run.insertCalls > 0
                => (run.embedCalls = Len(docs) /\ Len(embeddings) = Len(docs))
           /\ run.insertOk
                => /\ StoredRows = run.rowsAtBegin + Len(docs)
                   /\ Len(docs) = RetainedChunks(files[cur].content)
           /\ (AddReturns /\ result = "True" /\ run.checked # "True")
                => (run.insertOk /\ run.flushOk /\ coll.unflushed = <<>>)

\* C18 witness: a run embedded both chunks of a document, inserted them as
\* one batch, flushed and returned True.
C18_Witness ==
    /\ AddReturns /\ result = "True"
    /\ Len(docs) = 2 /\ run.embedCalls = 2
    /\ run.insertCalls = 1 /\ run.insertOk /\ run.flushOk
    /\ StoredRows = run.rowsAtBegin + 2

\* C20: when the removal step of force_reindex is over, the ledger has no
\* entry for the given path, every other entry is as it was and the store
\* is as it was; when the force_reindex returns True the store holds the
\* rows it held before and as many more as the file has retained chunks.
C20_RemovalFrame ==
    /\ (pc = "fr_add" /\ frObs.active)
         => LET md == LoadIndexMetadata(ledgerFile) IN
            /\ md.shape = "dict"
            /\ ~md.pf[cur].present
            /\ \A q \in Paths \ {cur} : md.pf[q] = frObs.pfBefore[q]
            /\ coll = frObs.collBefore
    /\ (AddReturns /\ op = "reindex" /\ result = "True")
         => /\ StoredRows = Len(frObs.collBefore.rows) + Len(frObs.collBefore.unflushed)
                              + RetainedChunks(files[cur].content)
            /\ SubSeq(coll.rows, 1, Len(frObs.collBefore.rows)) = frObs.collBefore.rows

\* Both processes have returned from add_documents.
BothReturned == \A i \in Procs : procs[i].pc = "done"

\* C19: when both processes have returned from add_documents, the ledger
\* file holds the entry of every file whose call returned True, and no
\* file was embedded and inserted by both processes.
C19_LedgerMutualExclusion ==
    BothReturned
        => /\ \A i \in Procs :
                procs[i].result = "True"
                    => /\ ~Unusable(ledgerFile)
                       /\ ledgerFile.pf[procs[i].path].present
           /\ \A i \in Procs, j \in Procs :
                (i # j /\ procs[i].path = procs[j].path)
                    => ~(procs[i].insertCalls > 0 /\ procs[j].insertCalls > 0)

\* The indices of window [lo, hi) of text that hold ch (indices from 0).
Holding(text, ch, lo, hi) == {i \in lo..(hi - 1) : i < Len(text) /\ text[i + 1] = ch}

Last(S) == CHOOSE i \in S : \A j \in S : j <= i

\* The start of the window that followed window k.
NextStart(k) == IF k < Len(ck.cuts) THEN ck.cuts[k + 1].start ELSE ck.start

\* Window k ends before the end of the text.
Inner(k) == ck.cuts[k].start + ck.chunk_size < Len(ck.text)

\* C21: every window of chunk_text that does not reach the end of the text
\* is cut right after its last '.' when that '.' lies more than half of
\* chunk_size from the start of the window, else at its last space when
\* that space lies more than half of chunk_size from the start, else at
\* start + chunk_size; and the next window starts overlap characters
\* before the cut.
C21_ChunkBoundaryPolicy ==
    \A k \in 1..Len(ck.cuts) :
        Inner(k) =>
            LET start == ck.cuts[k].start
                dots == Holding(ck.text, ".", start, start + ck.chunk_size)
                spaces == Holding(ck.text, " ", start, start + ck.chunk_size)
                cut == IF dots # {} /\ 2 * (Last(dots) - start) > ck.chunk_size
                       THEN Last(dots) + 1
                       ELSE IF spaces # {} /\ 2 * (Last(spaces) - start) > ck.chunk_size
                            THEN Last(spaces)
                            ELSE start + ck.chunk_size
            IN /\ ck.cuts[k].end = cut
               /\ NextStart(k) = cut - ck.overlap

\* C21 witness: chunk_text has returned after a window that was cut right
\* after its last '.' although a space followed further on in the window,
\* and the next window started overlap characters before that cut.
C21_Witness ==
    /\ ck.pc = "done"
    /\ \E k \in 1..Len(ck.cuts) :
         LET start == ck.cuts[k].start
             spaces == Holding(ck.text, " ", start, start + ck.chunk_size)
         IN /\ Inner(k)
            /\ ck.text[ck.cuts[k].end] = "."
            /\ spaces # {} /\ Last(spaces) > ck.cuts[k].end
            /\ ck.cuts[k].end < start + ck.chunk_size
            /\ NextStart(k) = ck.cuts[k].end - ck.overlap

\* C22: every turn of the loop of chunk_text moves the start of the window
\* strictly forward (so that the loop ends), for every chunk_size >= 1 and
\* 0 <= overlap < chunk_size.
C22_ChunkTextTerminates ==
    \A k \in 1..Len(ck.cuts) : NextStart(k) > ck.cuts[k].start

\* C23: whenever add_documents(path) returns True, the ledger file on disk
\* holds an entry for the path whose stored hash is the hash of the file's
\* present content, also when the write of the ledger file or the hashing
\* of the file failed during the call.
C23_TrueMeansLedgerEntry ==
    (AddReturns /\ result = "True")
        => /\ ~Unusable(ledgerFile)
           /\ ledgerFile.pf[cur].present
           /\ files[cur].exists
           /\ ledgerFile.pf[cur].file_hash = MD5(files[cur].content)

\* The rows of the collection, flushed or not, that stem from path p.
RowsOf(p) ==
    Cardinality({k \in 1..Len(coll.rows) : coll.rows[k].source = Basename(p)})
    + Cardinality({k \in 1..Len(coll.unflushed) : coll.unflushed[k].source = Basename(p)})

\* C24: in every state outside a running cleanup, when the ledger file
\* holds an entry for a path whose stored hash is the hash of the file's
\* content (the case in which add_documents returns True without
\* indexing), the collection exists and holds the chunk_count rows of that
\* file; also after a cleanup that dropped the collection and failed to
\* remove the ledger file.
C24_LedgerEntryHasVectors ==
    pc # "cleanup_remove" =>
        \A p \in Paths :
            (IsFileProcessed(ledgerFile, files[p], p, TRUE) = "True")
                => /\ HasCollection(coll)
                   /\ RowsOf(p) >= LoadIndexMetadata(ledgerFile).pf[p].chunk_count

====
